---- MODULE Spec2Model ----
(***************************************************************************)
(* Model of cli/raven.py: the process supervisor (start_car / stop_car and *)
(* the /tmp/raven_pids.txt registry) and the fleet commands (manage_tests, *)
(* pull_repos, push_repos) together with the exit status main() produces.  *)
(*                                                                         *)
(* Text is modelled as sequences of one-character strings, so that writing *)
(* a record and reading it back are two different computations.            *)
(***************************************************************************)
EXTENDS Integers, Sequences, FiniteSets, TLC

\* ------------------------------------------------------------------ bounds
\* MaxPids process identifiers the operating system can hand out, starting at
\* 9 so that the range crosses from one to two decimal digits.
MaxPids == 2

PIDS == 9..(8 + MaxPids)

\* At most MaxForeign of these pids are held by other users' processes at a time.
MaxForeign == 1

\* the serial ports one machine has, at most
MaxPorts == 2

\* --------------------------------------------------------------- variables
VARIABLES
  pids_txt,     \* /tmp/raven_pids.txt: [exists, content], content = characters
  alive,        \* processes launched by start_car that are still running
  foreign,      \* pids in use by processes the CLI user may not signal
  cmd,          \* the command of the last CLI invocation: "none", "start",
                \* "stop", "test", "pull", "push"
  running,      \* RUNNING_PROCESSES at the end of the latest start_car
  launch,       \* the launch outcome of each service in the latest start_car
  regBefore,    \* pids_txt as the last invocation found it
  killLog,      \* the os.kill calls of the last stop_car, in order
  out,          \* the lines the last invocation reported, in order
  exitCode,     \* exit status of the last invocation
  fpc,          \* fleet run position: "idle", "loop", "done"
  targets,      \* fleet run: the ordered target list
  venv,         \* manage_tests: brain_venv_python resolved (TRUE) or None
  visited,      \* fleet run: targets the loop has taken, in order
  outcomes,     \* fleet run: the branch each visited target ended in
  cond,         \* fleet run: what the last target's checks and commands gave
  cmds,         \* fleet run: external commands run for the last target
  counts,       \* pull/push counters
  overall_success, \* manage_tests flag
  env,          \* the machine flash runs on: pyserial, the serial ports, where
                \* arduino-cli is installed, what "board list" prints
  flash         \* the last flash_firmware / detect_serial_port run

supVars == <<pids_txt, alive, foreign, running, launch, regBefore, killLog>>
cliVars == <<cmd, out, exitCode>>
fleetVars == <<fpc, targets, venv, visited, outcomes, cond, cmds, counts,
               overall_success>>
fleetVars_loop == <<targets, venv, visited, outcomes, cond, cmds, counts,
                    overall_success>>
devVars == <<env, flash>>
vars == <<supVars, cliVars, fleetVars, devVars>>

\* ------------------------------------------------------------ text helpers
DigitChars == <<"0", "1", "2", "3", "4", "5", "6", "7", "8", "9">>

Whitespace == {" ", "\n", "\t"}

\* str(int) for a non-negative integer (the pid in the f-string, line 157)
RECURSIVE Str(_)
Str(n) ==
  IF n < 10 THEN <<DigitChars[n + 1]>>
  ELSE Str(n \div 10) \o <<DigitChars[(n % 10) + 1]>>

\* the keys of RUNNING_PROCESSES as text
NameChars(name) ==
  CASE name = "dashboard" -> <<"d", "a", "s", "h", "b", "o", "a", "r", "d">>
    [] name = "brain"     -> <<"b", "r", "a", "i", "n">>

\* variant: the record is written without its line end
FormatRecord_NoNewline(name, pid) == NameChars(name) \o <<":">> \o Str(pid)

\* f"{name}:{proc.pid}\n"
FormatRecord(name, pid) == NameChars(name) \o <<":">> \o Str(pid) \o <<"\n">>

\* iterating a text file: each line keeps its newline, a last line without
\* newline is still a line
RECURSIVE FileLines(_)
FileLines(s) ==
  IF s = <<>> THEN <<>>
  ELSE IF \E i \in 1..Len(s) : s[i] = "\n"
       THEN LET i == CHOOSE k \in 1..Len(s) :
                       s[k] = "\n" /\ \A j \in 1..(k - 1) : s[j] # "\n"
            IN <<SubSeq(s, 1, i)>> \o FileLines(SubSeq(s, i + 1, Len(s)))
       ELSE <<s>>

\* str.strip()
RECURSIVE LStrip(_)
LStrip(s) ==
  IF s # <<>> /\ Head(s) \in Whitespace THEN LStrip(Tail(s)) ELSE s

RECURSIVE RStrip(_)
RStrip(s) ==
  IF s # <<>> /\ s[Len(s)] \in Whitespace
  THEN RStrip(SubSeq(s, 1, Len(s) - 1)) ELSE s

Strip(s) == RStrip(LStrip(s))

\* str.split(":"): always at least one field
RECURSIVE Split(_)
Split(s) ==
  IF \E i \in 1..Len(s) : s[i] = ":"
  THEN LET i == CHOOSE k \in 1..Len(s) :
                  s[k] = ":" /\ \A j \in 1..(k - 1) : s[j] # ":"
       IN <<SubSeq(s, 1, i - 1)>> \o Split(SubSeq(s, i + 1, Len(s)))
  ELSE <<s>>

DigitValue(c) == (CHOOSE d \in 1..10 : DigitChars[d] = c) - 1

IsDigit(c) == \E d \in 1..10 : DigitChars[d] = c

RECURSIVE DigitsValue(_)
DigitsValue(s) ==
  IF s = <<>> THEN 0
  ELSE 10 * DigitsValue(SubSeq(s, 1, Len(s) - 1)) + DigitValue(s[Len(s)])

\* int(text) for text without a sign: surrounding whitespace is ignored, what
\* remains must be one or more decimal digits, otherwise ValueError
ParseInt(s) ==
  LET t == Strip(s)
  IN IF t # <<>> /\ \A i \in 1..Len(t) : IsDigit(t[i])
     THEN [ok |-> TRUE, val |-> DigitsValue(t)]
     ELSE [ok |-> FALSE, val |-> 0]

\* ----------------------------------------------------------------- main()
\* main() calls the handler and returns; no handler's result is looked at and
\* nothing calls sys.exit, so the interpreter exits 0 unless an exception
\* escaped the handler
ExitStatus(raised) == IF raised THEN 1 ELSE 0

\* exitCode while the handler is still running
NotExited == -1

\* ------------------------------------------------------- process supervisor
Absent == [exists |-> FALSE, content |-> <<>>]

File(content) == [exists |-> TRUE, content |-> content]

LaunchOutcomes == {"no_repo", "no_script", "raise", "ok"}

\* RUNNING_PROCESSES[name] = p: a dict keeps insertion order, an existing key
\* keeps its place and takes the new value
DictSet(d, name, pid) ==
  IF \E i \in 1..Len(d) : d[i].name = name
  THEN [i \in 1..Len(d) |->
          IF d[i].name = name THEN [name |-> name, pid |-> pid] ELSE d[i]]
  ELSE Append(d, [name |-> name, pid |-> pid])

\* a reported line: what it says, and the service and pid it names (if any)
Line(tag) == [tag |-> tag, name |-> <<>>, pid |-> 0]

Msg(tag, name) == [tag |-> tag, name |-> NameChars(name), pid |-> 0]

\* one launch section of start_car: resolve_path, the script check, then
\* open + Popen inside try/except Exception
LaunchService(d, name, outcome, pid) ==
  CASE outcome = "no_repo"   ->
         [running |-> d, out |-> <<Msg("ERROR_repo_not_found", name)>>]
    [] outcome = "no_script" ->
         [running |-> d, out |-> <<Msg("WARN_script_not_found", name)>>]
    [] outcome = "raise"     ->
         [running |-> d, out |-> <<Msg("INFO_launching", name),
                                   Msg("ERROR_failed_to_start", name)>>]
    [] outcome = "ok"        ->
         [running |-> DictSet(d, name, pid),
          out |-> <<Msg("INFO_launching", name),
                    [tag |-> "active", name |-> NameChars(name), pid |-> pid]>>]

\* the loop of lines 156-157 over RUNNING_PROCESSES.items()
RECURSIVE RecordsText(_)
RecordsText(d) ==
  IF d = <<>> THEN <<>>
  ELSE FormatRecord(d[1].name, d[1].pid) \o RecordsText(Tail(d))

\* variant: the file is opened for appending
WritePidFile_Append(old, d) == File(old.content \o RecordsText(d))

\* open("/tmp/raven_pids.txt", "w") truncates, then the records are written
WritePidFile(old, d) == File(RecordsText(d))

\* variant: the dashboard's Popen is not inside a try, its exception ends
\* start_car
StartCar_AbortOnFailure(dOut, bOut, dPid, bPid) ==
  LET d1 == LaunchService(<<>>, "dashboard", dOut, dPid)
      d2 == LaunchService(d1.running, "brain", bOut, bPid)
  IN IF dOut = "raise"
     THEN [raised |-> TRUE, running |-> d1.running, file |-> pids_txt,
           out |-> <<Msg("INFO_launching", "dashboard")>>]
     ELSE [raised  |-> FALSE,
           running |-> d2.running,
           file    |-> WritePidFile(pids_txt, d2.running),
           out     |-> d1.out \o d2.out
                       \o <<Line("SUCCESS_startup_complete")>>]

\* start_car, as a fresh CLI process runs it: RUNNING_PROCESSES starts empty
StartCar(dOut, bOut, dPid, bPid) ==
  LET d1 == LaunchService(<<>>, "dashboard", dOut, dPid)
      d2 == LaunchService(d1.running, "brain", bOut, bPid)
  IN [raised  |-> FALSE,
      running |-> d2.running,
      file    |-> WritePidFile(pids_txt, d2.running),
      out     |-> d1.out \o d2.out \o <<Line("SUCCESS_startup_complete")>>]

\* os.kill(pid, 15)
Kill(pid, live, other) ==
  IF pid \in live THEN "delivered"
  ELSE IF pid \in other THEN "EPERM" ELSE "ESRCH"

\* the body of the try in stop_car for one line; anything that raises is
\* passed over by except Exception
StopLine(line, live, other) ==
  LET parts == Split(Strip(line))
  IN IF Len(parts) # 2
     THEN [called |-> FALSE, pid |-> 0, res |-> "ValueError", name |-> <<>>]
     ELSE LET n == ParseInt(parts[2])
          IN IF ~n.ok
             THEN [called |-> FALSE, pid |-> 0, res |-> "ValueError",
                   name |-> parts[1]]
             ELSE [called |-> TRUE, pid |-> n.val,
                   res |-> Kill(n.val, live, other), name |-> parts[1]]

\* variant: the try encloses the whole loop, the first exception ends it
RECURSIVE StopLines_StopAtFailure(_, _, _)
StopLines_StopAtFailure(lines, live, other) ==
  IF lines = <<>> THEN [live |-> live, kills |-> <<>>, out |-> <<>>]
  ELSE LET r    == StopLine(lines[1], live, other)
           hit  == r.called /\ r.res = "delivered"
           rest == IF hit
                   THEN StopLines_StopAtFailure(Tail(lines), live \ {r.pid},
                                                other)
                   ELSE [live |-> live, kills |-> <<>>, out |-> <<>>]
       IN [live  |-> rest.live,
           kills |-> (IF r.called THEN <<[pid |-> r.pid, res |-> r.res]>>
                      ELSE <<>>) \o rest.kills,
           out   |-> (IF hit THEN <<[tag |-> "stopped", name |-> r.name,
                                      pid |-> r.pid]>> ELSE <<>>)
                     \o rest.out]

\* the for loop of stop_car over the lines of the file
RECURSIVE StopLines(_, _, _)
StopLines(lines, live, other) ==
  IF lines = <<>> THEN [live |-> live, kills |-> <<>>, out |-> <<>>]
  ELSE LET r    == StopLine(lines[1], live, other)
           hit  == r.called /\ r.res = "delivered"
           rest == StopLines(Tail(lines),
                             IF hit THEN live \ {r.pid} ELSE live, other)
       IN [live  |-> rest.live,
           kills |-> (IF r.called THEN <<[pid |-> r.pid, res |-> r.res]>>
                      ELSE <<>>) \o rest.kills,
           out   |-> (IF hit THEN <<[tag |-> "stopped", name |-> r.name,
                                      pid |-> r.pid]>> ELSE <<>>)
                     \o rest.out]

\* variant: the file is removed only when every signal was delivered
StopCar_KeepOnFailure(file, live, other) ==
  IF file.exists
  THEN LET r == StopLines(FileLines(file.content), live, other)
           clean == \A i \in 1..Len(r.kills) : r.kills[i].res = "delivered"
       IN [raised |-> FALSE,
           file  |-> IF clean THEN Absent ELSE file,
           live  |-> r.live, kills |-> r.kills,
           out   |-> <<Line("WARN_stopping")>> \o r.out
                     \o <<Line("parked_servos"), Line("SUCCESS_halted")>>]
  ELSE [raised |-> FALSE,
        file |-> file, live |-> live, kills |-> <<>>,
        out  |-> <<Line("WARN_stopping"), Line("INFO_no_active_processes")>>]

\* variant: the file is opened without the os.path.exists check
StopCar_NoExistsCheck(file, live, other) ==
  IF file.exists
  THEN LET r == StopLines(FileLines(file.content), live, other)
       IN [raised |-> FALSE,
           file  |-> Absent, live |-> r.live, kills |-> r.kills,
           out   |-> <<Line("WARN_stopping")>> \o r.out
                     \o <<Line("parked_servos"), Line("SUCCESS_halted")>>]
  ELSE [raised |-> TRUE,
        file |-> file, live |-> live, kills |-> <<>>,
        out  |-> <<Line("WARN_stopping")>>]

StopCar(file, live, other) ==
  IF file.exists
  THEN LET r == StopLines(FileLines(file.content), live, other)
       IN [raised |-> FALSE,
           file  |-> Absent, live |-> r.live, kills |-> r.kills,
           out   |-> <<Line("WARN_stopping")>> \o r.out
                     \o <<Line("parked_servos"), Line("SUCCESS_halted")>>]
  ELSE [raised |-> FALSE,
        file |-> file, live |-> live, kills |-> <<>>,
        out  |-> <<Line("WARN_stopping"), Line("INFO_no_active_processes")>>]

\* files an earlier session may have left behind: nothing, a record of a
\* process of an earlier boot, a damaged file
StaleFiles ==
  { Absent,
    File(FormatRecord("brain", 9)),
    File(<<"x", "\n">> \o FormatRecord("dashboard", 10)) }

NoLaunch == [dashboard |-> "none", brain |-> "none"]

NoCond == [dir |-> "-", pre |-> "-", status |-> "-", add |-> "-",
           commit |-> "-", run |-> "-"]

NoCounts == [success |-> 0, fail |-> 0, skipped |-> 0, no_changes |-> 0]

\* a machine with nothing flash could use
NoEnv == [serial |-> FALSE, ports |-> <<>>, which |-> FALSE,
          homebrew |-> FALSE, usrlocal |-> FALSE, board |-> "raise"]

NoDevice == [found |-> FALSE, device |-> <<>>]

\* no flash_firmware / detect_serial_port run yet
NoFlash == [arch |-> "none", steps |-> <<>>, uploaded |-> FALSE,
            port |-> NoDevice, consulted |-> FALSE]

DevIdle == env = NoEnv /\ flash = NoFlash

FleetIdle ==
  /\ fpc = "idle" /\ targets = <<>> /\ venv = FALSE
  /\ visited = <<>> /\ outcomes = <<>> /\ cond = NoCond /\ cmds = <<>>
  /\ counts = NoCounts /\ overall_success = TRUE

Init ==
  /\ pids_txt \in StaleFiles
  /\ alive = {}
  /\ foreign = {}
  /\ cmd = "none"
  /\ running = <<>>
  /\ launch = NoLaunch
  /\ regBefore = Absent
  /\ killLog = <<>>
  /\ out = <<>>
  /\ exitCode = 0
  /\ FleetIdle
  /\ DevIdle

\* the pids Popen can return: one no running process has
SpawnPids(outcome) ==
  IF outcome = "ok" THEN PIDS \ (alive \cup foreign) ELSE {0}

\* raven start
Start ==
  \E dOut \in LaunchOutcomes, bOut \in LaunchOutcomes :
  \E dPid \in SpawnPids(dOut), bPid \in SpawnPids(bOut) :
    /\ (dOut = "ok" /\ bOut = "ok") => dPid # bPid
    /\ LET r == StartCar(dOut, bOut, dPid, bPid)
       IN /\ pids_txt' = r.file
          /\ running' = r.running
          /\ out' = r.out
          /\ alive' = alive \cup {r.running[i].pid : i \in 1..Len(r.running)}
          /\ exitCode' = ExitStatus(r.raised)
    /\ launch' = [dashboard |-> dOut, brain |-> bOut]
    /\ regBefore' = pids_txt
    /\ cmd' = "start"
    /\ killLog' = <<>>
    /\ UNCHANGED <<foreign, fleetVars, devVars>>

\* raven stop
Stop ==
  LET r == StopCar(pids_txt, alive, foreign)
  IN /\ pids_txt' = r.file
     /\ alive' = r.live
     /\ killLog' = r.kills
     /\ out' = r.out
     /\ regBefore' = pids_txt
     /\ cmd' = "stop"
     /\ exitCode' = ExitStatus(r.raised)
     /\ UNCHANGED <<foreign, running, launch, fleetVars, devVars>>

\* a managed process ends on its own
ProcessExit ==
  \E p \in alive :
    /\ alive' = alive \ {p}
    /\ UNCHANGED <<pids_txt, foreign, running, launch, regBefore, killLog,
                   cliVars, fleetVars, devVars>>

\* a free pid is taken by a process of another user
PidTaken ==
  \E p \in PIDS \ (alive \cup foreign) :
    /\ Cardinality(foreign) < MaxForeign
    /\ foreign' = foreign \cup {p}
    /\ UNCHANGED <<pids_txt, alive, running, launch, regBefore, killLog,
                   cliVars, fleetVars, devVars>>

\* a process of another user ends
PidFreed ==
  \E p \in foreign :
    /\ foreign' = foreign \ {p}
    /\ UNCHANGED <<pids_txt, alive, running, launch, regBefore, killLog,
                   cliVars, fleetVars, devVars>>

Next == Start \/ Stop \/ ProcessExit \/ PidTaken \/ PidFreed

Spec == Init /\ [][Next]_vars

\* ------------------------------------------------------------ fleet commands
\* the keys of repos in manage_tests, in dict order
TestRepos ==
  <<"raven-brain-stack", "raven-computer", "raven-sim",
    "raven-embedded-control">>

\* repos[name]["type"]
RepoType(name) ==
  IF name \in {"raven-brain-stack", "raven-computer"}
  THEN "python" ELSE "shared_venv"

\* the repos list of pull_repos and of push_repos
FleetRepos ==
  <<"raven-brain-stack", "raven-computer", "raven-documentation",
    "raven-embedded-control", "raven-infrastructure", "raven-sim">>

Range(seq) == {seq[i] : i \in 1..Len(seq)}

\* how an external command ends: exit status 0, another exit status, or it
\* could not be started (subprocess raises)
Results == {"zero", "nonzero", "raise"}

In(dir, pre, status, add, commit, run) ==
  [dir |-> dir, pre |-> pre, status |-> status, add |-> add,
   commit |-> commit, run |-> run]

\* what one target of manage_tests can meet: the directory missing; present
\* with or without tests/; the test command's end where it is run (pytest
\* cannot exit 0 on a tests/ that is not there)
TestInputs(name, v) ==
  {In("missing", "-", "-", "-", "-", "-")}
  \cup UNION {
    { In("present", pre, "-", "-", "-", run) :
        run \in IF RepoType(name) = "python"
                THEN (IF pre = "yes" THEN Results ELSE {"-"})
                ELSE IF ~v THEN {"-"}
                ELSE IF pre = "yes" THEN Results ELSE {"nonzero", "raise"} }
    : pre \in {"yes", "no"} }

\* one iteration of the loop of manage_tests (lines 346-401)
TestOne(success, name, v, in) ==
  IF in.dir = "missing"
  THEN [raised |-> FALSE,
        overall |-> FALSE, label |-> "not_found", cmds |-> <<>>]
  ELSE IF RepoType(name) = "python" /\ in.pre = "no"
  THEN [raised |-> FALSE,
        overall |-> success, label |-> "skipped", cmds |-> <<>>]
  ELSE IF RepoType(name) = "shared_venv" /\ ~v
  THEN \* cmd[0] is None: ' '.join(cmd) raises TypeError inside the try
       [raised |-> FALSE,
        overall |-> FALSE, label |-> "failure", cmds |-> <<>>]
  ELSE IF in.run = "zero"
  THEN [raised |-> FALSE,
        overall |-> success, label |-> "success", cmds |-> <<"pytest">>]
  ELSE [raised |-> FALSE,
        overall |-> FALSE, label |-> "failure", cmds |-> <<"pytest">>]

\* what one target of pull_repos can meet
PullInputs ==
  {In("missing", "-", "-", "-", "-", "-"),
   In("present", "no", "-", "-", "-", "-")}
  \cup {In("present", "yes", "-", "-", "-", run) : run \in Results}

Bump(c, field) == [c EXCEPT ![field] = @ + 1]

\* variant: the except branch does not count the target
PullOne_RaiseNotCounted(c, in) ==
  IF in.dir = "missing"
  THEN [raised |-> FALSE,
        counts |-> Bump(c, "skipped"), label |-> "not_found", cmds |-> <<>>]
  ELSE IF in.pre = "no"
  THEN [raised |-> FALSE,
        counts |-> Bump(c, "skipped"), label |-> "skipped", cmds |-> <<>>]
  ELSE IF in.run = "zero"
  THEN [raised |-> FALSE,
        counts |-> Bump(c, "success"), label |-> "success",
        cmds |-> <<"pull">>]
  ELSE IF in.run = "raise"
  THEN [raised |-> FALSE,
        counts |-> c, label |-> "failure", cmds |-> <<"pull">>]
  ELSE [raised |-> FALSE,
        counts |-> Bump(c, "fail"), label |-> "failure", cmds |-> <<"pull">>]

\* variant: subprocess.run is called outside the try
PullOne_RaiseEscapes(c, in) ==
  IF in.dir = "missing"
  THEN [raised |-> FALSE,
        counts |-> Bump(c, "skipped"), label |-> "not_found", cmds |-> <<>>]
  ELSE IF in.pre = "no"
  THEN [raised |-> FALSE,
        counts |-> Bump(c, "skipped"), label |-> "skipped", cmds |-> <<>>]
  ELSE IF in.run = "zero"
  THEN [raised |-> FALSE,
        counts |-> Bump(c, "success"), label |-> "success",
        cmds |-> <<"pull">>]
  ELSE IF in.run = "raise"
  THEN [raised |-> TRUE,
        counts |-> c, label |-> "failure", cmds |-> <<"pull">>]
  ELSE [raised |-> FALSE,
        counts |-> Bump(c, "fail"), label |-> "failure", cmds |-> <<"pull">>]

\* one iteration of the loop of pull_repos (lines 426-475)
PullOne(c, in) ==
  IF in.dir = "missing"
  THEN [raised |-> FALSE,
        counts |-> Bump(c, "skipped"), label |-> "not_found", cmds |-> <<>>]
  ELSE IF in.pre = "no"
  THEN [raised |-> FALSE,
        counts |-> Bump(c, "skipped"), label |-> "skipped", cmds |-> <<>>]
  ELSE IF in.run = "zero"
  THEN [raised |-> FALSE,
        counts |-> Bump(c, "success"), label |-> "success",
        cmds |-> <<"pull">>]
  ELSE [raised |-> FALSE,
        counts |-> Bump(c, "fail"), label |-> "failure", cmds |-> <<"pull">>]

\* what one target of push_repos can meet: git status gives no text
\* ("clean"), some text ("dirty") or cannot be started; add, commit and push
\* each end in one of Results, as far as they are reached
PushInputs ==
  {In("missing", "-", "-", "-", "-", "-"),
   In("present", "no", "-", "-", "-", "-"),
   In("present", "yes", "clean", "-", "-", "-"),
   In("present", "yes", "raise", "-", "-", "-")}
  \cup {In("present", "yes", "dirty", a, "-", "-") : a \in {"nonzero", "raise"}}
  \cup {In("present", "yes", "dirty", "zero", c, "-") :
          c \in {"nonzero", "raise"}}
  \cup {In("present", "yes", "dirty", "zero", "zero", r) : r \in Results}

\* variant: the "no changes" branch lacks its continue and goes on to add
\* and commit, which finds nothing to commit
PushOne_NoContinue(c, in) ==
  IF in.dir = "missing"
  THEN [raised |-> FALSE,
        counts |-> Bump(c, "skipped"), label |-> "not_found", cmds |-> <<>>]
  ELSE IF in.pre = "no"
  THEN [raised |-> FALSE,
        counts |-> Bump(c, "skipped"), label |-> "skipped", cmds |-> <<>>]
  ELSE IF in.status = "raise"
  THEN [raised |-> FALSE,
        counts |-> Bump(c, "fail"), label |-> "failure",
        cmds |-> <<"status">>]
  ELSE IF in.status = "clean"
  THEN [raised |-> FALSE,
        counts |-> Bump(Bump(c, "no_changes"), "fail"), label |-> "failure",
        cmds |-> <<"status", "add", "commit">>]
  ELSE IF in.add # "zero"
  THEN [raised |-> FALSE,
        counts |-> Bump(c, "fail"), label |-> "failure",
        cmds |-> <<"status", "add">>]
  ELSE IF in.commit # "zero"
  THEN [raised |-> FALSE,
        counts |-> Bump(c, "fail"), label |-> "failure",
        cmds |-> <<"status", "add", "commit">>]
  ELSE IF in.run = "zero"
  THEN [raised |-> FALSE,
        counts |-> Bump(c, "success"), label |-> "success",
        cmds |-> <<"status", "add", "commit", "push">>]
  ELSE [raised |-> FALSE,
        counts |-> Bump(c, "fail"), label |-> "failure",
        cmds |-> <<"status", "add", "commit", "push">>]

\* variant: git add and git commit run without check=True, their exit
\* status is not looked at
PushOne_NoCheck(c, in) ==
  IF in.dir = "missing"
  THEN [raised |-> FALSE,
        counts |-> Bump(c, "skipped"), label |-> "not_found", cmds |-> <<>>]
  ELSE IF in.pre = "no"
  THEN [raised |-> FALSE,
        counts |-> Bump(c, "skipped"), label |-> "skipped", cmds |-> <<>>]
  ELSE IF in.status = "raise"
  THEN [raised |-> FALSE,
        counts |-> Bump(c, "fail"), label |-> "failure",
        cmds |-> <<"status">>]
  ELSE IF in.status = "clean"
  THEN [raised |-> FALSE,
        counts |-> Bump(c, "no_changes"), label |-> "no_changes",
        cmds |-> <<"status">>]
  ELSE IF in.add = "raise"
  THEN [raised |-> FALSE,
        counts |-> Bump(c, "fail"), label |-> "failure",
        cmds |-> <<"status", "add">>]
  ELSE IF in.commit = "raise"
  THEN [raised |-> FALSE,
        counts |-> Bump(c, "fail"), label |-> "failure",
        cmds |-> <<"status", "add", "commit">>]
  ELSE IF in.run \in {"zero", "-"}
  THEN [raised |-> FALSE,
        counts |-> Bump(c, "success"), label |-> "success",
        cmds |-> <<"status", "add", "commit", "push">>]
  ELSE [raised |-> FALSE,
        counts |-> Bump(c, "fail"), label |-> "failure",
        cmds |-> <<"status", "add", "commit", "push">>]

\* one iteration of the loop of push_repos (lines 502-553)
PushOne(c, in) ==
  IF in.dir = "missing"
  THEN [raised |-> FALSE,
        counts |-> Bump(c, "skipped"), label |-> "not_found", cmds |-> <<>>]
  ELSE IF in.pre = "no"
  THEN [raised |-> FALSE,
        counts |-> Bump(c, "skipped"), label |-> "skipped", cmds |-> <<>>]
  ELSE IF in.status = "raise"
  THEN [raised |-> FALSE,
        counts |-> Bump(c, "fail"), label |-> "failure",
        cmds |-> <<"status">>]
  ELSE IF in.status = "clean"
  THEN [raised |-> FALSE,
        counts |-> Bump(c, "no_changes"), label |-> "no_changes",
        cmds |-> <<"status">>]
  ELSE IF in.add # "zero"
  THEN [raised |-> FALSE,
        counts |-> Bump(c, "fail"), label |-> "failure",
        cmds |-> <<"status", "add">>]
  ELSE IF in.commit # "zero"
  THEN [raised |-> FALSE,
        counts |-> Bump(c, "fail"), label |-> "failure",
        cmds |-> <<"status", "add", "commit">>]
  ELSE IF in.run = "zero"
  THEN [raised |-> FALSE,
        counts |-> Bump(c, "success"), label |-> "success",
        cmds |-> <<"status", "add", "commit", "push">>]
  ELSE [raised |-> FALSE,
        counts |-> Bump(c, "fail"), label |-> "failure",
        cmds |-> <<"status", "add", "commit", "push">>]

\* the closing line of manage_tests (lines 404-407)
TestSummary(success) ==
  IF success THEN Line("SUCCESS_all_test_runs") ELSE Line("ERROR_some_failed")

\* the closing line of pull_repos and push_repos (lines 479-482, 557-560)
CountSummary(c) ==
  IF c.fail = 0 THEN Line("SUCCESS_summary")
  ELSE IF c.success > 0 THEN Line("WARN_summary") ELSE Line("ERROR_summary")

\* a fleet command starts in a fresh CLI process
FleetReset ==
  /\ visited' = <<>>
  /\ outcomes' = <<>>
  /\ cond' = NoCond
  /\ counts' = NoCounts
  /\ overall_success' = TRUE

\* raven test [repo]: manage_tests up to its loop; "" stands for no argument
TestBegin ==
  \E repo \in {"", "hardware", "raven-unknown"} \cup Range(TestRepos) :
  \E v \in BOOLEAN, hw \in {"no_repo", "no_script", "ran", "raise"} :
    /\ fpc \in {"idle", "done"}
    /\ repo # "hardware" => hw = "ran"
    /\ cmd' = "test"
    /\ venv' = v
    /\ FleetReset
    /\ IF repo = "hardware"
       THEN \* lines 320-333: the diagnostic runs outside any try
            /\ targets' = <<>>
            /\ cmds' = IF hw \in {"ran", "raise"} THEN <<"test_hardware">>
                       ELSE <<>>
            /\ out' = IF hw = "no_script"
                      THEN <<Line("INFO_hardware_test"),
                             Line("ERROR_hardware_script_not_found")>>
                      ELSE <<Line("INFO_hardware_test")>>
            /\ fpc' = "done"
            /\ exitCode' = ExitStatus(hw = "raise")
       ELSE IF repo # "" /\ repo \notin Range(TestRepos)
       THEN \* lines 335-337
            /\ targets' = <<>>
            /\ cmds' = <<>>
            /\ out' = <<Line("ERROR_repo_not_known")>>
            /\ fpc' = "done"
            /\ exitCode' = ExitStatus(FALSE)
       ELSE /\ targets' = IF repo = "" THEN TestRepos ELSE <<repo>>
            /\ cmds' = <<>>
            /\ out' = <<>>
            /\ fpc' = "loop"
            /\ exitCode' = NotExited
    /\ UNCHANGED <<devVars, supVars>>

\* raven pull / raven push up to the loop
PullBegin ==
  /\ fpc \in {"idle", "done"}
  /\ cmd' = "pull"
  /\ targets' = FleetRepos
  /\ fpc' = "loop"
  /\ FleetReset
  /\ cmds' = <<>>
  /\ out' = <<>>
  /\ exitCode' = NotExited
  /\ UNCHANGED <<devVars, supVars, venv>>

PushBegin ==
  /\ fpc \in {"idle", "done"}
  /\ cmd' = "push"
  /\ targets' = FleetRepos
  /\ fpc' = "loop"
  /\ FleetReset
  /\ cmds' = <<>>
  /\ out' = <<>>
  /\ exitCode' = NotExited
  /\ UNCHANGED <<devVars, supVars, venv>>

NextTarget == targets[Len(visited) + 1]

InLoop(c) == fpc = "loop" /\ cmd = c /\ Len(visited) < Len(targets)

\* an exception that leaves the loop body leaves the handler and main():
\* the interpreter exits 1; otherwise the loop goes on
Escape(raised) ==
  /\ fpc' = IF raised THEN "done" ELSE fpc
  /\ exitCode' = IF raised THEN ExitStatus(TRUE) ELSE exitCode

TestTarget ==
  /\ InLoop("test")
  /\ \E in \in TestInputs(NextTarget, venv) :
       LET r == TestOne(overall_success, NextTarget, venv, in)
       IN /\ overall_success' = r.overall
          /\ outcomes' = Append(outcomes, r.label)
          /\ cmds' = r.cmds
          /\ cond' = in
          /\ Escape(r.raised)
  /\ visited' = Append(visited, NextTarget)
  /\ UNCHANGED <<devVars, supVars, cmd, out, targets, venv, counts>>

PullTarget ==
  /\ InLoop("pull")
  /\ \E in \in PullInputs :
       LET r == PullOne(counts, in)
       IN /\ counts' = r.counts
          /\ outcomes' = Append(outcomes, r.label)
          /\ cmds' = r.cmds
          /\ cond' = in
          /\ Escape(r.raised)
  /\ visited' = Append(visited, NextTarget)
  /\ UNCHANGED <<devVars, supVars, cmd, out, targets, venv, overall_success>>

PushTarget ==
  /\ InLoop("push")
  /\ \E in \in PushInputs :
       LET r == PushOne(counts, in)
       IN /\ counts' = r.counts
          /\ outcomes' = Append(outcomes, r.label)
          /\ cmds' = r.cmds
          /\ cond' = in
          /\ Escape(r.raised)
  /\ visited' = Append(visited, NextTarget)
  /\ UNCHANGED <<devVars, supVars, cmd, out, targets, venv, overall_success>>

\* the loop is over: the summary line, return to main(), exit
FleetFinish ==
  /\ fpc = "loop"
  /\ Len(visited) = Len(targets)
  /\ out' = <<IF cmd = "test" THEN TestSummary(overall_success)
              ELSE CountSummary(counts)>>
  /\ exitCode' = ExitStatus(FALSE)
  /\ fpc' = "done"
  /\ UNCHANGED <<devVars, supVars, cmd, fleetVars_loop>>

FleetInit ==
  /\ pids_txt = Absent
  /\ alive = {}
  /\ foreign = {}
  /\ cmd = "none"
  /\ running = <<>>
  /\ launch = NoLaunch
  /\ regBefore = Absent
  /\ killLog = <<>>
  /\ out = <<>>
  /\ exitCode = 0
  /\ FleetIdle
  /\ DevIdle

FleetNext ==
  \/ TestBegin \/ PullBegin \/ PushBegin
  \/ TestTarget \/ PullTarget \/ PushTarget
  \/ FleetFinish

FleetSpec == FleetInit /\ [][FleetNext]_vars

\* ------------------------------------------------- device resolver and flash
\* the serial ports of the model, by name: what comports() gives as
\* port.description and port.device
PortKinds == {"stlink", "modem", "acm", "other"}

PortDescription(k) ==
  CASE k = "stlink" -> <<"S", "T", "M", "3", "2">>
    [] k = "modem"  -> <<"n", "/", "a">>
    [] k = "acm"    -> <<"n", "/", "a">>
    [] k = "other"  -> <<"a", "r", "d", "u", "i", "n", "o">>

PortDevice(k) ==
  CASE k = "stlink" -> <<"/", "d", "e", "v", "/", "t", "t", "y", "S", "1">>
    [] k = "modem"  -> <<"/", "d", "e", "v", "/", "c", "u", ".", "u", "s", "b", "m",
          "o", "d", "e", "m", "1">>
    [] k = "acm"    -> <<"/", "d", "e", "v", "/", "t", "t", "y", "A", "C", "M", "0">>
    [] k = "other"  -> <<"/", "d", "e", "v", "/", "t", "t", "y", "A", "C", "M">>

\* what "arduino-cli board list" can print, by name ("raise": the tool could
\* not be run)
BoardLists == {"raise", "none", "nano", "modem", "two"}

BoardListText(b) ==
  CASE b = "none"  -> <<"N", "o", " ", "b", "o", "a", "r", "d", "s", "\n">>
    [] b = "nano"  -> <<"P", "o", "r", "t", " ", "T", "y", "p", "e", "\n", "/", "d",
          "e", "v", "/", "t", "t", "y", "A", "C", "M", "1", " ",
          "n", "a", "n", "o", "r", "p", "2", "0", "4", "0", "c",
          "o", "n", "n", "e", "c", "t", "\n">>
    [] b = "modem" -> <<"P", "o", "r", "t", " ", "T", "y", "p", "e", "\n", " ", "/",
          "d", "e", "v", "/", "c", "u", ".", "u", "s", "b", "m",
          "o", "d", "e", "m", "2", " ", "S", "e", "r", "i", "a",
          "l", "\n">>
    [] b = "two"   -> <<"/", "d", "e", "v", "/", "t", "t", "y", "S", "3", " ", "U",
          "n", "k", "n", "o", "w", "n", "\n", "/", "d", "e", "v",
          "/", "c", "u", ".", "u", "s", "b", "m", "o", "d", "e",
          "m", "3", " ", "x", "\n", "/", "d", "e", "v", "/", "t",
          "t", "y", "A", "C", "M", "1", " ", "n", "a", "n", "o",
          "r", "p", "2", "0", "4", "0", "c", "o", "n", "n", "e",
          "c", "t", "\n">>
    [] b = "raise" -> <<>>

\* the texts detect_serial_port looks for (lines 59-64, 80)
Stm32 == <<"S", "T", "M", "3", "2">>

Nucleo == <<"N", "U", "C", "L", "E", "O">>

Arduino == <<"A", "r", "d", "u", "i", "n", "o">>

UsbModem == <<"u", "s", "b", "m", "o", "d", "e", "m">>

TtyAcm == <<"/", "d", "e", "v", "/", "t", "t", "y", "A", "C", "M">>

NanoRp2040 == <<"n", "a", "n", "o", "r", "p", "2", "0", "4", "0", "c", "o",
  "n", "n", "e", "c", "t">>

\* sub in s
Contains(s, sub) ==
  \E i \in 1..(Len(s) - Len(sub) + 1) : SubSeq(s, i, i + Len(sub) - 1) = sub

\* re.match(r"/dev/ttyACM\d+", device)
MatchesACM(device) ==
  LET prefix == TtyAcm
  IN /\ Len(device) > Len(prefix)
     /\ SubSeq(device, 1, Len(prefix)) = prefix
     /\ IsDigit(device[Len(prefix) + 1])

\* the three tests of lines 59-65 on one port
PortMatches(k) ==
  \/ Contains(PortDescription(k), Stm32)
  \/ Contains(PortDescription(k), Nucleo)
  \/ Contains(PortDescription(k), Arduino)
  \/ Contains(PortDevice(k), UsbModem)
  \/ MatchesACM(PortDevice(k))

Device(d) == [found |-> TRUE, device |-> d]

\* the loop of lines 57-65: the device of the first port that matches
RECURSIVE FirstPort(_)
FirstPort(ports) ==
  IF ports = <<>> THEN NoDevice
  ELSE IF PortMatches(ports[1]) THEN Device(PortDevice(ports[1]))
  ELSE FirstPort(Tail(ports))

\* str.splitlines(): the lines without their line ends
RECURSIVE SplitLines(_)
SplitLines(s) ==
  IF s = <<>> THEN <<>>
  ELSE IF \E i \in 1..Len(s) : s[i] = "\n"
       THEN LET i == CHOOSE k \in 1..Len(s) :
                       s[k] = "\n" /\ \A j \in 1..(k - 1) : s[j] # "\n"
            IN <<SubSeq(s, 1, i - 1)>> \o SplitLines(SubSeq(s, i + 1, Len(s)))
       ELSE <<s>>

\* line.split()[0]: the characters up to the first whitespace, leading
\* whitespace apart
RECURSIVE UpToSpace(_)
UpToSpace(s) ==
  IF s = <<>> \/ Head(s) \in Whitespace THEN <<>>
  ELSE <<Head(s)>> \o UpToSpace(Tail(s))

FirstToken(line) == UpToSpace(LStrip(line))

\* the loop of lines 79-83 over the lines of the board list
RECURSIVE FirstBoard(_)
FirstBoard(lines) ==
  IF lines = <<>> THEN NoDevice
  ELSE IF /\ \/ Contains(lines[1], NanoRp2040)
             \/ Contains(lines[1], UsbModem)
          /\ FirstToken(lines[1]) # <<>>
       THEN Device(FirstToken(lines[1]))
       ELSE FirstBoard(Tail(lines))

\* shutil.which("arduino-cli"), then the one fallback path of lines 70-71
DetectCli(h) == h.which \/ h.homebrew

\* detect_serial_port
DetectSerialPort(h) ==
  LET native == IF h.serial THEN FirstPort(h.ports) ELSE NoDevice
      asked  == ~native.found /\ DetectCli(h)
      tool   == IF asked /\ h.board # "raise"
                THEN FirstBoard(SplitLines(BoardListText(h.board)))
                ELSE NoDevice
      port   == IF native.found THEN native ELSE tool
  IN [raised |-> FALSE,
      port |-> port, consulted |-> asked,
      out  |-> IF ~port.found /\ ~h.serial
               THEN <<Line("WARN_no_pyserial_no_board")>> ELSE <<>>]


\* flash --arch mbed (lines 187-211); the copy goes through run_cmd, which
\* ends the process with status 1 when cp fails
FlashMbed(in) ==
  LET head == <<Line("INFO_flashing")>>
  IN IF ~in.path
     THEN [steps |-> <<>>, uploaded |-> FALSE, raised |-> FALSE,
           out |-> head \o <<Line("ERROR_repository_not_found")>>]
     ELSE IF ~in.bin
     THEN [steps |-> <<>>, uploaded |-> FALSE, raised |-> FALSE,
           out |-> head \o <<Line("binary_not_found")>>]
     ELSE IF ~in.volume
     THEN [steps |-> <<>>, uploaded |-> FALSE, raised |-> FALSE,
           out |-> head \o <<Line("ERROR_nucleo_volume_not_found")>>]
     ELSE IF in.cp = "zero"
     THEN [steps |-> <<"cp">>, uploaded |-> TRUE, raised |-> FALSE,
           out |-> head \o <<Line("SUCCESS_flashed")>>]
     ELSE [steps |-> <<"cp">>, uploaded |-> FALSE, raised |-> TRUE,
           out |-> head \o <<Line("ERROR_command_failed")>>]

\* the three places flash_firmware looks for arduino-cli (lines 219-225)
FlashCli(h) == h.which \/ h.homebrew \/ h.usrlocal

\* what the two except clauses of lines 255-259 log for a failed step
StepFailure(step, result) ==
  IF result = "nonzero" /\ step # "version"
  THEN Line("ERROR_arduino_action_failed")
  ELSE Line("ERROR_unexpected_error")

\* variant: the upload is started whether or not a port was found
FlashArduino_UploadAnyway(h, in) ==
  LET head == <<Line("INFO_flashing")>>
      d    == DetectSerialPort(h)
      none == [steps |-> <<>>, uploaded |-> FALSE, raised |-> FALSE,
               port |-> NoDevice, consulted |-> FALSE, out |-> head]
  IN IF ~in.path
     THEN [none EXCEPT !.out = head \o <<Line("ERROR_repository_not_found")>>]
     ELSE IF ~FlashCli(h)
     THEN [none EXCEPT !.out = head \o <<Line("ERROR_arduino_cli_not_found")>>]
     ELSE IF in.version # "zero"
     THEN [none EXCEPT !.steps = <<"version">>,
                       !.out = head \o <<StepFailure("version", in.version)>>]
     ELSE IF in.compile # "zero"
     THEN [none EXCEPT !.steps = <<"version", "compile">>,
                       !.out = head \o <<StepFailure("compile", in.compile)>>]
     ELSE IF in.upload = "zero"
     THEN [steps |-> <<"version", "compile", "resolve", "upload">>,
           uploaded |-> TRUE, raised |-> FALSE,
           port |-> d.port, consulted |-> d.consulted,
           out |-> head \o d.out \o <<[Line("uploading") EXCEPT
                                         !.name = d.port.device],
                                      Line("SUCCESS_firmware_updated")>>]
     ELSE [steps |-> <<"version", "compile", "resolve", "upload">>,
           uploaded |-> FALSE, raised |-> FALSE,
           port |-> d.port, consulted |-> d.consulted,
           out |-> head \o d.out \o <<[Line("uploading") EXCEPT
                                         !.name = d.port.device],
                                      StepFailure("upload", in.upload)>>]

\* flash --arch arduino (lines 187-191, 213-263): version, compile,
\* detect_serial_port, upload; every failure is caught and logged
FlashArduino(h, in) ==
  LET head == <<Line("INFO_flashing")>>
      d    == DetectSerialPort(h)
      none == [steps |-> <<>>, uploaded |-> FALSE, raised |-> FALSE,
               port |-> NoDevice, consulted |-> FALSE, out |-> head]
  IN IF ~in.path
     THEN [none EXCEPT !.out = head \o <<Line("ERROR_repository_not_found")>>]
     ELSE IF ~FlashCli(h)
     THEN [none EXCEPT !.out = head \o <<Line("ERROR_arduino_cli_not_found")>>]
     ELSE IF in.version # "zero"
     THEN [none EXCEPT !.steps = <<"version">>,
                       !.out = head \o <<StepFailure("version", in.version)>>]
     ELSE IF in.compile # "zero"
     THEN [none EXCEPT !.steps = <<"version", "compile">>,
                       !.out = head \o <<StepFailure("compile", in.compile)>>]
     ELSE IF ~d.port.found
     THEN [steps |-> <<"version", "compile", "resolve">>,
           uploaded |-> FALSE, raised |-> d.raised,
           port |-> d.port, consulted |-> d.consulted,
           out |-> head \o d.out \o <<Line("no_compatible_board")>>]
     ELSE IF in.upload = "zero"
     THEN [steps |-> <<"version", "compile", "resolve", "upload">>,
           uploaded |-> TRUE, raised |-> FALSE,
           port |-> d.port, consulted |-> d.consulted,
           out |-> head \o d.out \o <<[Line("uploading") EXCEPT
                                         !.name = d.port.device],
                                      Line("SUCCESS_firmware_updated")>>]
     ELSE [steps |-> <<"version", "compile", "resolve", "upload">>,
           uploaded |-> FALSE, raised |-> FALSE,
           port |-> d.port, consulted |-> d.consulted,
           out |-> head \o d.out \o <<[Line("uploading") EXCEPT
                                         !.name = d.port.device],
                                      StepFailure("upload", in.upload)>>]

\* the port lists comports() can return
PortLists == UNION {[1..n -> PortKinds] : n \in 0..MaxPorts}

\* the machines of the model; without pyserial there is no port list, and
\* without arduino-cli no board list
Envs ==
  {h \in [serial : BOOLEAN, ports : PortLists, which : BOOLEAN,
          homebrew : BOOLEAN, usrlocal : BOOLEAN, board : BoardLists] :
     /\ ~h.serial => h.ports = <<>>
     /\ ~FlashCli(h) => h.board = "raise"}

\* what flash --arch mbed finds on disk, and how cp ends (check_call with
\* shell=True: an exit status, zero or not)
MbedInputs ==
  {in \in [path : BOOLEAN, bin : BOOLEAN, volume : BOOLEAN,
           cp : {"zero", "nonzero"}] :
     /\ ~in.path => ~in.bin
     /\ ~in.bin => ~in.volume
     /\ ~in.volume => in.cp = "zero"}

\* what flash --arch arduino finds on disk, and how each arduino-cli run ends
ArduinoInputs ==
  {in \in [path : BOOLEAN, version : Results, compile : Results,
           upload : Results] :
     /\ ~in.path => in.version = "zero"
     /\ in.version # "zero" => in.compile = "zero"
     /\ in.compile # "zero" => in.upload = "zero"}

\* detect_serial_port on its own
Detect ==
  LET d == DetectSerialPort(env)
  IN /\ flash' = [arch |-> "detect", steps |-> <<"resolve">>,
                  uploaded |-> FALSE, port |-> d.port,
                  consulted |-> d.consulted]
     /\ out' = d.out
     /\ cmd' = "detect"
     /\ exitCode' = ExitStatus(d.raised)
     /\ UNCHANGED <<env, supVars, fleetVars>>

\* raven flash --arch mbed
FlashMbedCmd ==
  \E in \in MbedInputs :
    LET r == FlashMbed(in)
    IN /\ flash' = [arch |-> "mbed", steps |-> r.steps,
                    uploaded |-> r.uploaded, port |-> NoDevice,
                    consulted |-> FALSE]
       /\ out' = r.out
       /\ cmd' = "flash"
       /\ exitCode' = ExitStatus(r.raised)
       /\ UNCHANGED <<env, supVars, fleetVars>>

\* raven flash --arch arduino
FlashArduinoCmd ==
  \E in \in ArduinoInputs :
    LET r == FlashArduino(env, in)
    IN /\ flash' = [arch |-> "arduino", steps |-> r.steps,
                    uploaded |-> r.uploaded, port |-> r.port,
                    consulted |-> r.consulted]
       /\ out' = r.out
       /\ cmd' = "flash"
       /\ exitCode' = ExitStatus(r.raised)
       /\ UNCHANGED <<env, supVars, fleetVars>>

FlashInit ==
  /\ pids_txt = Absent
  /\ alive = {}
  /\ foreign = {}
  /\ cmd = "none"
  /\ running = <<>>
  /\ launch = NoLaunch
  /\ regBefore = Absent
  /\ killLog = <<>>
  /\ out = <<>>
  /\ exitCode = 0
  /\ FleetIdle
  /\ env \in Envs
  /\ flash = NoFlash

FlashNext == Detect \/ FlashMbedCmd \/ FlashArduinoCmd

FlashSpec == FlashInit /\ [][FlashNext]_vars

\* ------------------------------------------------------------------ claims
RegistryEmpty(f) == ~f.exists \/ f.content = <<>>

\* the names of the records of a registry file, as stop_car splits them
RecordNames(f) ==
  LET lines == FileLines(f.content)
  IN [i \in 1..Len(lines) |-> Split(Strip(lines[i]))[1]]

Count(seq, x) == Cardinality({i \in 1..Len(seq) : seq[i] = x})

Tags(lines) == {lines[i].tag : i \in 1..Len(lines)}

\* the aggregate result of a fleet run: the flag of manage_tests, the
\* fail_count == 0 test of pull_repos and push_repos
AggregateSuccess ==
  IF cmd = "test" THEN overall_success ELSE counts.fail = 0

FleetDone == fpc = "done" /\ targets # <<>>

\* C1: once a stop has returned, the registry file is absent, whatever the
\* registry held and however each signal ended.
C1_StopLeavesRegistryAbsent ==
  (cmd = "stop" /\ exitCode = 0) => ~pids_txt.exists

\* a stop that found two records, could not signal the first process (it
\* was gone) and signalled the second
C1_Witness ==
  /\ cmd = "stop" /\ exitCode = 0
  /\ regBefore.exists
  /\ Len(killLog) = 2
  /\ killLog[1].res = "ESRCH"
  /\ killLog[2].res = "delivered"
  /\ ~pids_txt.exists

\* C2: the aggregate success of a finished fleet run is true iff no target
\* ended in Failure, however many were skipped or not found.
C2_AggregateIffNoFailure ==
  FleetDone => (AggregateSuccess <=> Count(outcomes, "failure") = 0)

\* C3: targets whose directory is missing do not change the aggregate: it
\* is the aggregate of the outcomes of the other targets.
C3_MissingTargetIsolated ==
  FleetDone =>
    LET others == SelectSeq(outcomes, LAMBDA o : o # "not_found")
    IN AggregateSuccess = (\A i \in 1..Len(others) : others[i] # "failure")

\* C4: a fleet run takes the targets once each in list order and gives each
\* exactly one outcome; the counters of pull and push count these outcomes
\* and add up to the number of targets taken.
C4_OneOutcomePerTarget ==
  /\ Len(visited) <= Len(targets)
  /\ visited = SubSeq(targets, 1, Len(visited))
  /\ Len(outcomes) = Len(visited)
  /\ fpc = "done" => visited = targets
  /\ cmd \in {"pull", "push"} =>
       /\ counts.success = Count(outcomes, "success")
       /\ counts.fail = Count(outcomes, "failure")
       /\ counts.skipped
            = Count(outcomes, "skipped") + Count(outcomes, "not_found")
       /\ counts.no_changes = Count(outcomes, "no_changes")
       /\ counts.success + counts.fail + counts.skipped + counts.no_changes
            = Len(visited)

\* a finished pull in which a directory was missing, a checkout was not a
\* git repository, one git pull could not be started, one exited nonzero
\* and one succeeded
C4_Witness ==
  /\ fpc = "done" /\ cmd = "pull"
  /\ {"not_found", "skipped", "failure", "success"} \subseteq Range(outcomes)
  /\ cond.run = "raise"
  /\ counts.fail >= 2

\* C5: a finished fleet command exits 0 iff its aggregate is success.
C5_ExitCodeReflectsFailures ==
  FleetDone => (exitCode = 0 <=> AggregateSuccess)

\* C6: a start whose launches fail still goes on to the next service,
\* reports each failure, writes the registry and completes normally: the
\* services recorded are exactly those whose own launch succeeded.
C6_LaunchFailuresIndependent ==
  cmd = "start" =>
    /\ exitCode = 0
    /\ pids_txt.exists
    /\ \A s \in {"dashboard", "brain"} :
         /\ (launch[s] = "ok")
              <=> (\E i \in 1..Len(running) : running[i].name = s)
         /\ launch[s] # "ok" =>
              \E i \in 1..Len(out) :
                /\ out[i].name = NameChars(s)
                /\ out[i].tag \in {"ERROR_repo_not_found",
                                   "WARN_script_not_found",
                                   "ERROR_failed_to_start"}
    /\ out[Len(out)].tag = "SUCCESS_startup_complete"

\* a start in which the dashboard's spawn raised and the brain was launched
C6_Witness ==
  /\ cmd = "start"
  /\ launch.dashboard = "raise"
  /\ launch.brain = "ok"
  /\ Len(running) = 1 /\ running[1].name = "brain"
  /\ running[1].pid \in alive
  /\ pids_txt.exists

\* C7: the registry a start wrote has exactly one line per launched service,
\* which reads back as that service's name and the pid the spawn returned;
\* a stop that comes next calls os.kill with exactly these pids, in order.
C7_RoundTrip ==
  [][cmd = "start" =>
       LET lines == FileLines(pids_txt.content)
       IN /\ Len(lines) = Len(running)
          /\ \A i \in 1..Len(running) :
               LET r == StopLine(lines[i], {}, {})
               IN /\ r.called
                  /\ r.pid = running[i].pid
                  /\ r.name = NameChars(running[i].name)
          /\ cmd' = "stop" =>
               /\ Len(killLog') = Len(running)
               /\ \A i \in 1..Len(running) :
                    /\ killLog'[i].pid = running[i].pid
                    /\ running[i].pid \in alive
                         => killLog'[i].res = "delivered"
               /\ alive' = alive \ {running[i].pid : i \in 1..Len(running)}
    ]_vars

\* a stop right after a start that launched both services, one of them
\* with a two-digit pid: both pids were signalled
C7_Witness ==
  /\ cmd = "stop"
  /\ Len(running) = 2
  /\ Len(killLog) = 2
  /\ \A i \in 1..2 : /\ killLog[i].pid = running[i].pid
                     /\ killLog[i].res = "delivered"
  /\ \E i \in 1..2 : running[i].pid >= 10
  /\ regBefore.exists /\ Len(FileLines(regBefore.content)) = 2

\* C8: the registry never holds two records with the same service name.
C8_OneRecordPerName ==
  LET names == RecordNames(pids_txt)
  IN \A i, j \in 1..Len(names) : names[i] = names[j] => i = j

\* a start that found the registry of an earlier start, both with a record
\* for each service
C8_Witness ==
  /\ cmd = "start"
  /\ regBefore.exists
  /\ Range(RecordNames(regBefore))
       = {NameChars("dashboard"), NameChars("brain")}
  /\ Range(RecordNames(pids_txt))
       = {NameChars("dashboard"), NameChars("brain")}
  /\ regBefore # pids_txt

\* C9: a stop that finds the registry absent or empty calls os.kill for
\* nothing, does not raise, exits 0 and leaves the registry absent.
C9_StopOnEmptyIsNoOp ==
  (cmd = "stop" /\ RegistryEmpty(regBefore)) =>
    /\ killLog = <<>>
    /\ exitCode = 0
    /\ ~pids_txt.exists
    /\ "stopped" \notin Tags(out)

\* a stop after a start that launched nothing and wrote an empty registry
C9_Witness ==
  /\ cmd = "stop"
  /\ regBefore.exists /\ regBefore.content = <<>>
  /\ running = <<>> /\ launch.dashboard # "none"
  /\ killLog = <<>>
  /\ exitCode = 0

\* C10: a stop that finds the registry absent or empty reports that there
\* was nothing to stop, and not a halt.
C10_NothingToStopReported ==
  (cmd = "stop" /\ RegistryEmpty(regBefore)) =>
    /\ "INFO_no_active_processes" \in Tags(out)
    /\ "SUCCESS_halted" \notin Tags(out)

\* a registry line that stop_car can read: two fields, the second a number
Readable(line) ==
  LET parts == Split(Strip(line))
  IN Len(parts) = 2 /\ ParseInt(parts[2]).ok

RecordPid(line) == ParseInt(Split(Strip(line))[2]).val

\* C11: a stop calls os.kill once for every readable record of the registry
\* it found, in the order of the file, whatever became of the records
\* before it.
C11_EveryRecordSignalled ==
  (cmd = "stop" /\ regBefore.exists) =>
    LET good == SelectSeq(FileLines(regBefore.content), Readable)
    IN /\ Len(killLog) = Len(good)
       /\ \A i \in 1..Len(good) : killLog[i].pid = RecordPid(good[i])

\* a stop whose registry began with an unreadable line: the record after
\* it was still signalled
C11_Witness ==
  /\ cmd = "stop" /\ regBefore.exists
  /\ LET lines == FileLines(regBefore.content)
     IN /\ Len(lines) = 2
        /\ ~Readable(lines[1])
        /\ Readable(lines[2])
        /\ Len(killLog) = 1
        /\ killLog[1].pid = RecordPid(lines[2])

\* a step of the loop of a fleet run: one more target has been taken
TargetTaken == Len(visited') = Len(visited) + 1

Last(seq) == seq[Len(seq)]

PushSteps == <<"status", "add", "commit", "push">>

\* C12: in push, a target whose git status shows nothing has no add, commit
\* or push run on it and is counted as "no changes" and as nothing else.
C12_CleanTargetUntouched ==
  [][(cmd = "push" /\ TargetTaken /\ cond'.status = "clean") =>
       /\ cmds' = <<"status">>
       /\ outcomes' = Append(outcomes, "no_changes")
       /\ counts' = [counts EXCEPT !.no_changes = @ + 1]
    ]_vars

\* a push in which a clean target was passed over after another target had
\* been pushed
C12_Witness ==
  /\ cmd = "push" /\ Len(visited) >= 2
  /\ cond.status = "clean"
  /\ Last(outcomes) = "no_changes"
  /\ cmds = <<"status">>
  /\ counts.no_changes = 1 /\ counts.success >= 1

\* C13: in push, a target with pending changes has add, commit and push run
\* in this order, each only after the one before it exited 0; if one of the
\* three does not exit 0 the target is counted as failed, once, and the loop
\* goes on.
C13_PushStepsInOrder ==
  [][(cmd = "push" /\ TargetTaken /\ cond'.status = "dirty") =>
       LET failed == \E f \in {"add", "commit", "run"} :
                        cond'[f] \in {"nonzero", "raise"}
       IN /\ Len(cmds') \in 2..4
          /\ cmds' = SubSeq(PushSteps, 1, Len(cmds'))
          /\ Len(cmds') >= 3 <=> cond'.add = "zero"
          /\ Len(cmds') = 4 <=> (cond'.add = "zero" /\ cond'.commit = "zero")
          /\ failed => /\ outcomes' = Append(outcomes, "failure")
                       /\ counts' = [counts EXCEPT !.fail = @ + 1]
          /\ ~failed => /\ outcomes' = Append(outcomes, "success")
                        /\ counts' = [counts EXCEPT !.success = @ + 1]
          /\ fpc' = "loop"
          /\ exitCode' = NotExited
    ]_vars

\* a push whose first two targets failed, the second at git commit, with
\* targets still to come
C13_Witness ==
  /\ cmd = "push" /\ fpc = "loop"
  /\ Len(visited) = 2 /\ Len(targets) > 2
  /\ outcomes = <<"failure", "failure">>
  /\ cond.add = "zero" /\ cond.commit = "nonzero"
  /\ cmds = <<"status", "add", "commit">>
  /\ counts.fail = 2

\* the last target met an exception: a command that could not be started,
\* or (manage_tests) a command line whose interpreter is None
ExceptionMet ==
  \/ \E f \in {"status", "add", "commit", "run"} : cond'[f] = "raise"
  \/ /\ cmd = "test" /\ cond'.dir = "present" /\ ~venv
     /\ RepoType(NextTarget) = "shared_venv"

\* C14: an exception met while a target of a fleet run is handled makes that
\* target a failure and nothing else: the outcomes before it stand, the loop
\* goes on and the command does not end with the exception.
C14_ExceptionBecomesFailure ==
  [][(TargetTaken /\ ExceptionMet) =>
       /\ outcomes' = Append(outcomes, "failure")
       /\ cmd \in {"pull", "push"} => counts' = [counts EXCEPT !.fail = @ + 1]
       /\ cmd = "test" => ~overall_success'
       /\ fpc' = "loop"
       /\ exitCode' = NotExited
    ]_vars

\* a test run over all targets whose first target's test command could not
\* be started: it is a failure and the loop is still running
C14_Witness ==
  /\ cmd = "test" /\ fpc = "loop"
  /\ Len(targets) = 4 /\ Len(visited) = 1
  /\ cond.run = "raise"
  /\ outcomes = <<"failure">>
  /\ exitCode = NotExited

\* C15: a target that is there but does not meet the precondition of the
\* command (no .git, no tests/) is skipped, and no command is run on it.
C15_UnmetPreconditionSkipped ==
  (Len(visited) > 0 /\ cond.dir = "present" /\ cond.pre = "no") =>
    /\ Last(outcomes) = "skipped"
    /\ cmds = <<>>

\* C16: a test of a name that is not a known target reports the error, runs
\* nothing and exits nonzero.
C16_UnknownTargetExitsNonzero ==
  (cmd = "test" /\ "ERROR_repo_not_known" \in Tags(out)) =>
    /\ visited = <<>>
    /\ cmds = <<>>
    /\ fpc = "done"
    /\ exitCode # 0

\* ---- device resolver and flash
Resolved == "resolve" \in Range(flash.steps)

\* the native enumeration is available and has a matching port
NativeMatch(h) == h.serial /\ \E i \in 1..Len(h.ports) : PortMatches(h.ports[i])

\* the first matching port of the native enumeration
NativeCandidate(h) ==
  LET i == CHOOSE k \in 1..Len(h.ports) :
             /\ PortMatches(h.ports[k])
             /\ \A j \in 1..(k - 1) : ~PortMatches(h.ports[j])
  IN PortDevice(h.ports[i])

\* arduino-cli is installed: on the search path or at one of the two fixed
\* places
ToolInstalled(h) == h.which \/ h.homebrew \/ h.usrlocal

Qualifies(line) == Contains(line, NanoRp2040) \/ Contains(line, UsbModem)

\* the lines the tool prints, none when it fails
ToolLines(h) ==
  IF h.board = "raise" THEN <<>> ELSE SplitLines(BoardListText(h.board))

ToolMatch(h) == \E i \in 1..Len(ToolLines(h)) : Qualifies(ToolLines(h)[i])

ToolCandidate(h) ==
  LET i == CHOOSE k \in 1..Len(ToolLines(h)) :
             /\ Qualifies(ToolLines(h)[k])
             /\ \A j \in 1..(k - 1) : ~Qualifies(ToolLines(h)[j])
  IN FirstToken(ToolLines(h)[i])

WarningReported == \E i \in 1..Len(out) : out[i].tag = "WARN_no_pyserial_no_board"

\* C17: device resolution follows a fixed priority: a matching port of the
\* native enumeration is returned and the external tool is not consulted; the
\* tool is consulted exactly when the native source is unavailable or has no
\* match, and the result is then the first whitespace-delimited token of the
\* first qualifying line of its output; with no candidate from either source
\* the result is NotFound.  (Violated: an arduino-cli installed at the second
\* fixed place only is never consulted.)
C17_ResolutionPriority ==
  Resolved =>
    /\ NativeMatch(env) =>
         /\ flash.port = Device(NativeCandidate(env))
         /\ ~flash.consulted
    /\ ToolInstalled(env) => (flash.consulted <=> ~NativeMatch(env))
    /\ (ToolInstalled(env) /\ ~NativeMatch(env) /\ ToolMatch(env)) =>
         flash.port = Device(ToolCandidate(env))
    /\ (~NativeMatch(env) /\ ~(ToolInstalled(env) /\ ToolMatch(env))) =>
         flash.port = NoDevice

\* C18: the resolver never raises because a source is missing, a warning is
\* reported for every resolution that ends NotFound and for none that returns
\* a candidate.  (Violated: with pyserial installed a NotFound is silent.)
C18_WarningIffNotFound ==
  (flash.arch = "detect") =>
    /\ exitCode = 0
    /\ WarningReported <=> ~flash.port.found

\* C19: flash exits with a nonzero code whenever the device cannot be
\* resolved or the build or upload step fails, and exits 0 only when the
\* upload succeeded.  (Violated: every arduino failure is caught and logged.)
C19_ExitCodeReflectsUpload ==
  (flash.arch \in {"mbed", "arduino"}) => (exitCode = 0 <=> flash.uploaded)

BuildOrUpload == {"compile", "upload", "cp"}

\* C20, as stated: no build, compile or upload step is performed in a run in
\* which device resolution has not yet succeeded.  (Violated: compile runs
\* before the resolver, and the mbed copy never calls it.)
C20_ResolvedBeforeBuild ==
  \A i \in 1..Len(flash.steps) :
    flash.steps[i] \in BuildOrUpload =>
      /\ flash.port.found
      /\ \E j \in 1..(i - 1) : flash.steps[j] = "resolve"

\* C20, amended: in flash --arch arduino the upload is started only after the
\* device resolver returned a device in that run; the resolver itself is
\* called only after the compile step succeeded
C20_UploadAfterResolution ==
  (flash.arch = "arduino") =>
    \A i \in 1..Len(flash.steps) :
      /\ flash.steps[i] = "upload" =>
           /\ flash.port.found
           /\ \E j \in 1..(i - 1) : flash.steps[j] = "resolve"
      /\ flash.steps[i] = "resolve" =>
           \E j \in 1..(i - 1) : flash.steps[j] = "compile"

C20_Witness ==
  /\ flash.arch = "arduino"
  /\ flash.steps = <<"version", "compile", "resolve", "upload">>
  /\ flash.port.found
  /\ flash.consulted

\* ---- registry and orphans
\* the services whose launch succeeded in the last start
Launched == {s \in {"dashboard", "brain"} : launch[s] = "ok"}

\* C21: each start rewrites the registry: after a start the registry holds
\* exactly one record for each service this start launched, with the pid its
\* spawn returned, and nothing else, whatever the registry held before.
C21_RegistryRewritten ==
  cmd = "start" =>
    LET lines == FileLines(pids_txt.content)
    IN /\ pids_txt.exists
       /\ Len(lines) = Cardinality(Launched)
       /\ \A i \in 1..Len(lines) :
            /\ Readable(lines[i])
            /\ \E s \in Launched : Split(Strip(lines[i]))[1] = NameChars(s)
            /\ running[i].name \in Launched
            /\ Split(Strip(lines[i]))[1] = NameChars(running[i].name)
            /\ RecordPid(lines[i]) = running[i].pid
       /\ \A s \in Launched :
            Count(RecordNames(pids_txt), NameChars(s)) = 1

\* a start that found the two records of an earlier start and launched the
\* brain alone: one record is left
C21_Witness ==
  /\ cmd = "start"
  /\ regBefore.exists
  /\ Len(FileLines(regBefore.content)) = 2
  /\ Launched = {"brain"}
  /\ Len(FileLines(pids_txt.content)) = 1
  /\ RecordNames(pids_txt) = <<NameChars("brain")>>

\* C22: a stop reports the outcome of every registry entry: a line saying
\* stopped for each entry whose signal was delivered, a failure line for each
\* entry whose signal failed.  (Violated: except Exception: pass reports
\* nothing.)
C22_EveryOutcomeReported ==
  (cmd = "stop" /\ regBefore.exists) =>
    \A i \in 1..Len(killLog) :
      \E j \in 1..Len(out) :
        /\ out[j].pid = killLog[i].pid
        /\ IF killLog[i].res = "delivered"
           THEN out[j].tag = "stopped"
           ELSE out[j].tag # "stopped"

\* C23: when the resolver falls back to the external tool, the tool is used
\* whenever it is on the search path or at one of the two fixed places.
\* (Violated: the resolver does not look at the second fixed place.)
C23_ToolLocatedAtThreePlaces ==
  (Resolved /\ ~NativeMatch(env)) => (flash.consulted <=> ToolInstalled(env))

\* the pids of the readable records of a registry file
RecordPids(f) ==
  IF f.exists
  THEN {RecordPid(l) : l \in {x \in Range(FileLines(f.content)) : Readable(x)}}
  ELSE {}

\* C24: no managed process is orphaned: every process a start launched that
\* is still running and that no stop has signalled has a record in the
\* registry.  (Violated: a second start drops the records of the first.)
C24_NoOrphan == alive \subseteq RecordPids(pids_txt)

====
